---------------------------- MODULE Spec2Model ----------------------------
(***************************************************************************)
(* Sequential Dispatch Controller of flow-dashboard.                       *)
(*                                                                         *)
(* The repository holds four variants of the EmailDashboard component:     *)
(*   "countdown"  src/src/components/EmailDashboard.tsx, lines 47-638      *)
(*   "prefill"    src/src/components/EmailDashboard.tsx, lines 678-1043    *)
(*   "guarded"    src/public/api/index.php,              lines 113-495     *)
(*   "prepend"    src/unnamed/part_000,                  lines 36-444      *)
(* The variant is fixed in the initial state.  One state machine models    *)
(* the React state (results, stats, isRunning, isPaused, countdown,        *)
(* recipients, delay), the refs (isPausedRef, currentIndexRef) and every   *)
(* invocation of the async function startSending that has not returned     *)
(* yet (loops).  A step is one event-loop task: a click handler, the       *)
(* arrival of a fetch response with the continuation that follows it up to *)
(* the next await, or the firing of a timer with its continuation.         *)
(* The PHP script src/public/api/index.php, lines 1-49, that the dashboard *)
(* posts to is modelled by the variable endpoint, one step per request.    *)
(***************************************************************************)
EXTENDS Integers, Sequences, FiniteSets, Bags, TLC

VARIABLES
    variant,          \* which EmailDashboard variant runs
    recipients,       \* useState(""): the recipient textarea, a sequence of characters
    delay,            \* useState(2): seconds between sends
    results,          \* useState<EmailResult[]>([])
    stats,            \* useState({success, failed, processed}) (countdown variant)
    isRunning,        \* useState(false)
    isPaused,         \* useState(false) (countdown variant)
    countdown,        \* useState(0) (countdown variant)
    isPausedRef,      \* useRef(false): the pause-request flag
    currentIndexRef,  \* useRef(0): the cursor
    loops,            \* bag of the suspended invocations of startSending
    jobEnded,         \* history: End Job was pressed while the invocations
                      \* now suspended were already suspended
    endpoint,         \* /api/index.php: the request it handled last, the mail
                      \* it handed to mail() and the response it gave
    campaign          \* history: the list that the last start with the cursor
                      \* at 0 normalized from the recipient text

vars == << variant, recipients, delay, results, stats, isRunning, isPaused,
           countdown, isPausedRef, currentIndexRef, loops, jobEnded, endpoint,
           campaign >>

---------------------------------------------------------------------------
(* Bounds of the model *)

\* largest value typed into the delay input (its initial value is DefaultDelay)
MaxDelay == 0
\* largest number of startSending invocations suspended at the same time
MaxLoops == 2
\* a start while an earlier invocation is still suspended is followed only
\* when the list it parses is not longer than this
MaxOverlapLen == 2
\* prepend variant: rows are never discarded by a start, so a fresh start is
\* followed only while the log holds at most this many rows
MaxRows == 2

\* useState(2) of the delay input
DefaultDelay == 2

Variants == {"countdown", "prefill", "guarded", "prepend"}

Null == "null"
Undefined == "undefined"

---------------------------------------------------------------------------
(* Recipient List Normalizer: parseEmails *)

Whitespace == {" ", "\n"}

\* String.prototype.toLowerCase on the characters of the model
ToLowerChar(c) == IF c = "A" THEN "a" ELSE IF c = "B" THEN "b" ELSE c

ToLower(s) == [k \in 1..Len(s) |-> ToLowerChar(s[k])]

RECURSIVE TrimStart(_)
TrimStart(s) ==
    IF s # <<>> /\ Head(s) \in Whitespace THEN TrimStart(Tail(s)) ELSE s

RECURSIVE TrimEnd(_)
TrimEnd(s) ==
    IF s # <<>> /\ s[Len(s)] \in Whitespace
    THEN TrimEnd(SubSeq(s, 1, Len(s) - 1)) ELSE s

\* String.prototype.trim
Trim(s) == TrimEnd(TrimStart(s))

\* String.prototype.includes("@")
IncludesAt(s) == \E k \in 1..Len(s) : s[k] = "@"

\* the character class of the split regex: /[\n,;\s]+/ or /[\n,]+/
SplitChars(v) ==
    IF v \in {"countdown", "prepend"} THEN {"\n", ",", ";", " "} ELSE {"\n", ","}

\* text.split(/[...]+/): the pieces between maximal runs of delimiters;
\* acc is the list of pieces so far, its last entry the piece being read
RECURSIVE SplitFrom(_, _, _, _)
SplitFrom(text, D, k, acc) ==
    IF k > Len(text) THEN acc
    ELSE IF text[k] \in D
         THEN IF k > 1 /\ text[k - 1] \in D
              THEN SplitFrom(text, D, k + 1, acc)
              ELSE SplitFrom(text, D, k + 1, Append(acc, <<>>))
         ELSE SplitFrom(text, D, k + 1,
                        [acc EXCEPT ![Len(acc)] = Append(acc[Len(acc)], text[k])])

Split(text, D) == SplitFrom(text, D, 1, << <<>> >>)

\* a faulty Set that keeps the last occurrence of each entry instead of the
\* first; C25 must detect it
RECURSIVE Unique_KeepsLast(_)
Unique_KeepsLast(list) ==
    IF list = <<>> THEN <<>>
    ELSE LET rest == Unique_KeepsLast(Tail(list))
         IN IF \E k \in 1..Len(rest) : rest[k] = Head(list) THEN rest
            ELSE << Head(list) >> \o rest

\* [...new Set(list)]: first occurrences, in order
RECURSIVE Unique(_)
Unique(list) ==
    IF list = <<>> THEN <<>>
    ELSE LET init == Unique(SubSeq(list, 1, Len(list) - 1))
             last == list[Len(list)]
         IN IF \E k \in 1..Len(init) : init[k] = last THEN init
            ELSE Append(init, last)

\* .filter(e => e && e.includes("@"))
FilterValid(list) == SelectSeq(list, LAMBDA e : e # <<>> /\ IncludesAt(e))

parseEmails(v, text) ==
    LET pieces == Split(text, SplitChars(v))
        mapped == [k \in 1..Len(pieces) |-> ToLower(Trim(pieces[k]))]
        kept   == FilterValid(mapped)
    IN IF v \in {"prefill", "guarded"} THEN Unique(kept) ELSE kept

\* the endpoint before any request has reached it
NoRequest == [handled |-> FALSE]

\* the texts the operator types into the recipient textarea
TextNoAt  == <<"x">>
TextThree == <<"a", "@", ",", "b", "@", "\n", "c", "@">>
TextDup   == <<"A", "@", ",", "a", "@">>

RecipientTexts == {TextNoAt, TextThree, TextDup}


---------------------------------------------------------------------------
(* The external mail endpoint as the controller sees it, and sendEmail *)

\* what one fetch of /api/index.php can come back with: the call throws
\* (transport failure), or it returns an HTTP status (ok = 2xx) and a body
Responses ==
    { [threw |-> TRUE,  ok |-> FALSE, body |-> "none"] } \cup
    { [threw |-> FALSE, ok |-> o, body |-> b] :
        o \in BOOLEAN, b \in {"json_success", "json_failed", "nonjson"} }

\* the two answers of the endpoint's documented contract: 2xx with a JSON
\* body of status "success", non-2xx with a JSON body of status "failed"
ContractResponses ==
    { [threw |-> FALSE, ok |-> TRUE,  body |-> "json_success"],
      [threw |-> FALSE, ok |-> FALSE, body |-> "json_failed"] }

\* JSON.parse(text), or { error: "Non-JSON response", rawText: text }
ParseBody(body) ==
    IF body = "json_success"
      THEN [json |-> TRUE, status |-> "success", message |-> "Email sent"]
    ELSE IF body = "json_failed"
      THEN [json |-> TRUE, status |-> "failed", message |-> "Rejected"]
    ELSE [json |-> FALSE, status |-> Undefined, message |-> Undefined]

\* JSON.stringify(result.raw, null, 2), by the kind of payload
Serialize(data) ==
    IF data.json THEN data.status ELSE "Non-JSON response"

sendEmail(resp) ==
    IF resp.threw
    THEN [success |-> FALSE, message |-> "Failed to fetch", raw |-> "{}"]
    ELSE LET data == ParseBody(resp.body)
         IN IF ~resp.ok
            THEN [success |-> FALSE,
                  message |-> IF data.message # Undefined THEN data.message
                              ELSE "HTTP status",
                  raw     |-> Serialize(data)]
            ELSE [success |-> TRUE, message |-> data.message,
                  raw     |-> Serialize(data)]

---------------------------------------------------------------------------
(* The result list *)

\* variants that add a row when a recipient starts sending (and find it
\* again by its index field); the others prefill one pending row each
Prepends(v) == v \in {"countdown", "prepend"}

\* emails.map((email, index) => ({index: index + 1, email, status: "pending", ...}))
PendingRows(emails) ==
    [k \in 1..Len(emails) |->
        [index |-> k, email |-> emails[k], status |-> "pending",
         time |-> Null, message |-> Null, rawResponse |-> Undefined]]

\* the setResults call that marks recipient i (0-based) as sending
MarkSending(v, res, i, email) ==
    IF Prepends(v)
    THEN << [index |-> i + 1, email |-> email, status |-> "sending",
             time |-> Null,
             message |-> IF v = "countdown" THEN "Sending..." ELSE Null,
             rawResponse |-> Undefined] >> \o res
    ELSE [k \in 1..Len(res) |->
            IF k = i + 1 THEN [res[k] EXCEPT !.status = "sending"] ELSE res[k]]

\* the row after the response: status, time, message || "Done", rawResponse
Terminal(r, result) ==
    [r EXCEPT !.status = IF result.success THEN "success" ELSE "failed",
              !.time = "time",
              !.message = IF result.message = Undefined THEN "Done"
                          ELSE result.message,
              !.rawResponse = result.raw]

\* the setResults call that records the response for recipient i (0-based)
UpdateRow(v, res, i, result) ==
    [k \in 1..Len(res) |->
        IF (Prepends(v) /\ res[k].index = i + 1) \/ (~Prepends(v) /\ k = i + 1)
        THEN Terminal(res[k], result) ELSE res[k]]

\* setStats(prev => ...) after a response (countdown variant only)
UpdateStats(v, st, result) ==
    IF v = "countdown"
    THEN [success   |-> st.success + (IF result.success THEN 1 ELSE 0),
          failed    |-> st.failed + (IF result.success THEN 0 ELSE 1),
          processed |-> st.processed + 1]
    ELSE st

ZeroStats == [success |-> 0, failed |-> 0, processed |-> 0]

---------------------------------------------------------------------------
(* The dispatch loop of startSending *)

\* the invocations of startSending suspended on the fetch / on the timer
Sending == {L \in BagToSet(loops) : L.pc = "send"}
Waiting == {L \in BagToSet(loops) : L.pc = "wait"}

\* the loop stays suspended as L2; res and cd are the values of results and
\* countdown after the setState calls made so far in this task
Suspend(L2, res, cd, rest) ==
    /\ results' = res
    /\ countdown' = cd
    /\ loops' = rest (+) SetToBag({L2})
    /\ UNCHANGED << isRunning, isPaused, currentIndexRef >>

\* a faulty completion that leaves the cursor where it is; C14 must detect it
Complete_KeepsCursor(v, res, cd, pau, rest) ==
    /\ isRunning' = FALSE
    /\ isPaused' = IF v = "countdown" THEN FALSE ELSE pau
    /\ countdown' = IF v = "countdown" THEN 0 ELSE cd
    /\ results' = res
    /\ loops' = rest
    /\ UNCHANGED currentIndexRef

\* after the for loop: currentIndexRef.current = 0; setIsRunning(false); ...
Complete(v, res, cd, pau, rest) ==
    /\ currentIndexRef' = 0
    /\ isRunning' = FALSE
    /\ isPaused' = IF v = "countdown" THEN FALSE ELSE pau
    /\ countdown' = IF v = "countdown" THEN 0 ELSE cd
    /\ results' = res
    /\ loops' = rest

\* a faulty checkpoint that does not store the cursor; C15 must detect it
Checkpoint_NoCursor(v, i, res, cd, pau, rest) ==
    /\ isRunning' = (v = "countdown")
    /\ isPaused' = IF v = "countdown" THEN TRUE ELSE pau
    /\ countdown' = cd
    /\ results' = res
    /\ loops' = rest
    /\ UNCHANGED currentIndexRef

\* if (isPausedRef.current) { currentIndexRef.current = i; ...; return; }
Checkpoint(v, i, res, cd, pau, rest) ==
    /\ currentIndexRef' = i
    /\ isRunning' = (v = "countdown")
    /\ isPaused' = IF v = "countdown" THEN TRUE ELSE pau
    /\ countdown' = cd
    /\ results' = res
    /\ loops' = rest

\* the top of the for loop at index i (0-based), up to the await of sendEmail:
\* exit when i is past the list, return at the pause checkpoint, or mark the
\* recipient and issue the request.  run and pau are the values of isRunning
\* and isPaused after the setState calls made so far in this task.
Iterate(v, L, i, res, cd, ref, run, pau, rest) ==
    IF i >= Len(L.emailList)
    THEN Complete(v, res, cd, pau, rest)
    ELSE IF ref
    THEN Checkpoint(v, i, res, cd, pau, rest)
    ELSE /\ results' = MarkSending(v, res, i, L.emailList[i + 1])
         /\ loops' = rest (+) SetToBag({[L EXCEPT !.pc = "send", !.i = i, !.s = 0]})
         /\ isRunning' = run
         /\ isPaused' = pau
         /\ countdown' = cd
         /\ UNCHANGED currentIndexRef

\* startSending once the list is known to be non-empty: the reset of a fresh
\* start, the flags, and the loop up to its first await
Launch(v, emails) ==
    LET fresh == IF v = "countdown" THEN currentIndexRef = 0
                 ELSE IF v = "prepend" THEN FALSE
                 ELSE currentIndexRef = 0 \/ Len(results) = 0
        res0  == IF ~fresh THEN results
                 ELSE IF v = "countdown" THEN <<>> ELSE PendingRows(emails)
        L     == [pc |-> "send", from |-> currentIndexRef, i |-> currentIndexRef,
                  emailList |-> emails, delay |-> delay, s |-> 0]
    IN /\ stats' = IF fresh /\ v = "countdown" THEN ZeroStats ELSE stats
       /\ isPausedRef' = FALSE
       /\ Iterate(v, L, currentIndexRef, res0, countdown, FALSE, TRUE,
                  IF v = "countdown" THEN FALSE ELSE isPaused, loops)
       /\ jobEnded' = FALSE
       /\ campaign' = IF currentIndexRef = 0 THEN emails ELSE campaign
       /\ UNCHANGED << endpoint, variant, recipients, delay >>

\* the model follows a start only while it stays within the bounds
WithinBounds(emails) ==
    /\ BagCardinality(loops) < MaxLoops
    /\ loops # EmptyBag =>
          Len(emails) <= MaxOverlapLen
    /\ (variant = "prepend" /\ currentIndexRef = 0) => Len(results) <= MaxRows

\* Start / Resume Campaign button: shown when !isRunning, disabled when
\* !recipients.trim()
startSending ==
    /\ ~isRunning
    /\ Trim(recipients) # <<>>
    /\ LET emails == parseEmails(variant, recipients)
       IN IF emails = <<>>
          THEN UNCHANGED vars
          ELSE WithinBounds(emails) /\ Launch(variant, emails)

\* Resume button of the countdown variant: shown when isRunning && isPaused
handleResume ==
    /\ variant = "countdown"
    /\ isRunning /\ isPaused
    /\ LET emails == parseEmails(variant, recipients)
       IN IF emails = <<>>
          THEN /\ isPausedRef' = FALSE
               /\ isPaused' = FALSE
               /\ UNCHANGED << endpoint, campaign, variant, recipients, delay, results, stats,
                               isRunning, countdown, currentIndexRef, loops,
                               jobEnded >>
          ELSE WithinBounds(emails) /\ Launch(variant, emails)

\* a faulty continuation in which a failed send escapes as an exception: the
\* row is not updated and the invocation ends where it is; C20 must detect it
Response_ThrowsOnFailure(L, resp) ==
    LET v      == variant
        result == sendEmail(resp)
        res1   == UpdateRow(v, results, L.i, result)
        rest   == loops (-) SetToBag({L})
    IN /\ L.pc = "send"
       /\ IF ~result.success
          THEN /\ loops' = rest
               /\ UNCHANGED << results, stats, isRunning, isPaused, countdown,
                               currentIndexRef >>
          ELSE /\ stats' = UpdateStats(v, stats, result)
               /\ IF L.i < Len(L.emailList) - 1 /\ ~isPausedRef
                  THEN IF v = "countdown" /\ L.delay = 0
                       THEN Iterate(v, L, L.i + 1, res1, 0, isPausedRef,
                                    isRunning, isPaused, rest)
                       ELSE Suspend([L EXCEPT !.pc = "wait", !.s = L.delay],
                                    res1,
                                    IF v = "countdown" THEN L.delay
                                    ELSE countdown, rest)
                  ELSE Iterate(v, L, L.i + 1, res1, countdown, isPausedRef,
                               isRunning, isPaused, rest)
       /\ jobEnded' = (jobEnded /\ loops' # EmptyBag)
       /\ UNCHANGED << endpoint, campaign, variant, recipients, delay, isPausedRef >>

\* the fetch of loop L comes back with resp; the loop records it and runs on
\* to its next await
Response(L, resp) ==
    LET v      == variant
        result == sendEmail(resp)
        res1   == UpdateRow(v, results, L.i, result)
        rest   == loops (-) SetToBag({L})
    IN /\ L.pc = "send"
       /\ stats' = UpdateStats(v, stats, result)
       /\ IF L.i < Len(L.emailList) - 1 /\ ~isPausedRef
          THEN IF v = "countdown" /\ L.delay = 0
               THEN Iterate(v, L, L.i + 1, res1, 0, isPausedRef, isRunning,
                            isPaused, rest)
               ELSE Suspend([L EXCEPT !.pc = "wait", !.s = L.delay], res1,
                            IF v = "countdown" THEN L.delay ELSE countdown, rest)
          ELSE Iterate(v, L, L.i + 1, res1, countdown, isPausedRef, isRunning,
                       isPaused, rest)
       /\ jobEnded' = (jobEnded /\ loops' # EmptyBag)
       /\ UNCHANGED << endpoint, campaign, variant, recipients, delay, isPausedRef >>

\* a faulty continuation after the timer that goes on to the next recipient
\* without looking at the pause flag; C18 must detect it
Tick_IgnoresPause(L) ==
    LET v    == variant
        rest == loops (-) SetToBag({L})
    IN /\ L.pc = "wait"
       /\ IF v = "countdown"
          THEN IF L.s - 1 > 0
               THEN Suspend([L EXCEPT !.s = L.s - 1], results, L.s - 1, rest)
               ELSE Iterate(v, L, L.i + 1, results, 0, FALSE, isRunning,
                            isPaused, rest)
          ELSE IF L.s > 1
               THEN Suspend([L EXCEPT !.s = L.s - 1], results, countdown, rest)
               ELSE Iterate(v, L, L.i + 1, results, countdown, FALSE,
                            isRunning, isPaused, rest)
       /\ jobEnded' = (jobEnded /\ loops' # EmptyBag)
       /\ UNCHANGED << endpoint, campaign, variant, recipients, delay, stats, isPausedRef >>

\* a faulty continuation after the timer that leaves the wait after its
\* first second; C19 must detect it
Tick_OneSecond(L) ==
    LET rest == loops (-) SetToBag({L})
    IN /\ L.pc = "wait"
       /\ Iterate(variant, L, L.i + 1, results,
                  IF variant = "countdown" THEN 0 ELSE countdown,
                  isPausedRef, isRunning, isPaused, rest)
       /\ jobEnded' = (jobEnded /\ loops' # EmptyBag)
       /\ UNCHANGED << endpoint, campaign, variant, recipients, delay, stats, isPausedRef >>

\* a faulty continuation after the timer that counts the whole delay down
\* before it looks at the pause flag; C38 must detect it
Tick_FinishesCountdown(L) ==
    LET v    == variant
        rest == loops (-) SetToBag({L})
    IN /\ L.pc = "wait"
       /\ IF v = "countdown"
          THEN IF L.s - 1 > 0
               THEN Suspend([L EXCEPT !.s = L.s - 1], results, L.s - 1, rest)
               ELSE Iterate(v, L, L.i + 1, results, 0, isPausedRef, isRunning,
                            isPaused, rest)
          ELSE IF L.s > 1
               THEN Suspend([L EXCEPT !.s = L.s - 1], results, countdown, rest)
               ELSE Iterate(v, L, L.i + 1, results, countdown, isPausedRef,
                            isRunning, isPaused, rest)
       /\ jobEnded' = (jobEnded /\ loops' # EmptyBag)
       /\ UNCHANGED << endpoint, campaign, variant, recipients, delay, stats, isPausedRef >>

\* one second passes for the timer loop L waits on.  countdown variant: the
\* setTimeout(r, 1000) fires, s--, and the countdown loop goes on or is left.
\* sleep variants: sleep(delay * 1000) fires once its last second has passed.
Tick(L) ==
    LET v    == variant
        rest == loops (-) SetToBag({L})
    IN /\ L.pc = "wait"
       /\ IF v = "countdown"
          THEN IF L.s - 1 > 0 /\ ~isPausedRef
               THEN Suspend([L EXCEPT !.s = L.s - 1], results, L.s - 1, rest)
               ELSE Iterate(v, L, L.i + 1, results, 0, isPausedRef, isRunning,
                            isPaused, rest)
          ELSE IF L.s > 1
               THEN Suspend([L EXCEPT !.s = L.s - 1], results, countdown, rest)
               ELSE Iterate(v, L, L.i + 1, results, countdown, isPausedRef,
                            isRunning, isPaused, rest)
       /\ jobEnded' = (jobEnded /\ loops' # EmptyBag)
       /\ UNCHANGED << endpoint, campaign, variant, recipients, delay, stats, isPausedRef >>

---------------------------------------------------------------------------
(* The controls *)

\* a faulty pause that also stops the campaign itself; C23 must detect it
handlePause_StopsRunning ==
    /\ variant = "countdown"
    /\ isRunning /\ ~isPaused
    /\ isPausedRef' = TRUE
    /\ isPaused' = TRUE
    /\ isRunning' = FALSE
    /\ countdown' = 0
    /\ UNCHANGED << endpoint, campaign, variant, recipients, delay, results, stats,
                    currentIndexRef, loops, jobEnded >>

\* Pause Campaign button of the countdown variant: isRunning && !isPaused
handlePause ==
    /\ variant = "countdown"
    /\ isRunning /\ ~isPaused
    /\ isPausedRef' = TRUE
    /\ isPaused' = TRUE
    /\ countdown' = 0
    /\ UNCHANGED << endpoint, campaign, variant, recipients, delay, results, stats, isRunning,
                    currentIndexRef, loops, jobEnded >>

\* Pause button of the other variants: shown when isRunning
pauseSending ==
    /\ variant # "countdown"
    /\ isRunning
    /\ isPausedRef' = TRUE
    /\ UNCHANGED << endpoint, campaign, variant, recipients, delay, results, stats, isRunning,
                    isPaused, countdown, currentIndexRef, loops, jobEnded >>

\* a faulty End Job that also resets the counters; C37 must detect it
endJob_ResetsStats ==
    /\ variant = "countdown"
    /\ isRunning /\ isPaused
    /\ isRunning' = FALSE
    /\ isPaused' = FALSE
    /\ isPausedRef' = FALSE
    /\ currentIndexRef' = 0
    /\ countdown' = 0
    /\ stats' = ZeroStats
    /\ jobEnded' = (loops # EmptyBag)
    /\ UNCHANGED << endpoint, campaign, variant, recipients, delay, results, loops >>

\* a faulty End Job that forgets to reset the cursor; C8 must detect it
endJob_KeepsCursor ==
    /\ variant = "countdown"
    /\ isRunning /\ isPaused
    /\ isRunning' = FALSE
    /\ isPaused' = FALSE
    /\ isPausedRef' = FALSE
    /\ countdown' = 0
    /\ jobEnded' = (loops # EmptyBag)
    /\ UNCHANGED << endpoint, campaign, variant, recipients, delay, results, stats, loops,
                    currentIndexRef >>

\* End Job button of the countdown variant: shown when isRunning && isPaused
endJob ==
    /\ variant = "countdown"
    /\ isRunning /\ isPaused
    /\ isRunning' = FALSE
    /\ isPaused' = FALSE
    /\ isPausedRef' = FALSE
    /\ currentIndexRef' = 0
    /\ countdown' = 0
    /\ jobEnded' = (loops # EmptyBag)
    /\ UNCHANGED << endpoint, campaign, variant, recipients, delay, results, stats, loops >>

\* Clear Logs button of the countdown and prepend variants: never disabled
clearLogs ==
    /\ variant \in {"countdown", "prepend"}
    /\ results' = <<>>
    /\ stats' = IF variant = "countdown" THEN ZeroStats ELSE stats
    /\ currentIndexRef' = 0
    /\ isRunning' = FALSE
    /\ isPaused' = IF variant = "countdown" THEN FALSE ELSE isPaused
    /\ isPausedRef' = FALSE
    /\ countdown' = IF variant = "countdown" THEN 0 ELSE countdown
    /\ UNCHANGED << endpoint, campaign, variant, recipients, delay, loops, jobEnded >>

\* a faulty Clear button that is never disabled; C39 must detect it
clearResults_NeverDisabled ==
    /\ variant \in {"prefill", "guarded"}
    /\ results' = <<>>
    /\ currentIndexRef' = 0
    /\ isRunning' = FALSE
    /\ isPausedRef' = FALSE
    /\ UNCHANGED << endpoint, campaign, variant, recipients, delay, stats, isPaused, countdown,
                    loops, jobEnded >>

\* Clear button of the prefill and guarded variants; the guarded variant
\* disables it while isRunning
clearResults ==
    /\ variant \in {"prefill", "guarded"}
    /\ variant = "guarded" => ~isRunning
    /\ results' = <<>>
    /\ currentIndexRef' = 0
    /\ isRunning' = FALSE
    /\ isPausedRef' = FALSE
    /\ UNCHANGED << endpoint, campaign, variant, recipients, delay, stats, isPaused, countdown,
                    loops, jobEnded >>

\* recipients and delay are read only by a call of startSending, so an edit
\* is followed only in the states in which a button that calls it is shown
CanStart == ~isRunning \/ (variant = "countdown" /\ isPaused)

\* the recipient textarea: onChange={(e) => setRecipients(e.target.value)}
setRecipients(text) ==
    /\ CanStart
    /\ recipients' = text
    /\ UNCHANGED << endpoint, campaign, variant, delay, results, stats, isRunning, isPaused,
                    countdown, isPausedRef, currentIndexRef, loops, jobEnded >>

\* the delay input: onChange={(e) => setDelay(Number(e.target.value))}
setDelay(d) ==
    /\ CanStart
    /\ delay' = d
    /\ UNCHANGED << endpoint, campaign, variant, recipients, results, stats, isRunning, isPaused,
                    countdown, isPausedRef, currentIndexRef, loops, jobEnded >>

---------------------------------------------------------------------------
(* The specification *)

Init ==
    /\ variant \in Variants
    /\ recipients = <<>>
    /\ delay = DefaultDelay
    /\ results = <<>>
    /\ stats = ZeroStats
    /\ isRunning = FALSE
    /\ isPaused = FALSE
    /\ countdown = 0
    /\ isPausedRef = FALSE
    /\ currentIndexRef = 0
    /\ loops = EmptyBag
    /\ jobEnded = FALSE
    /\ endpoint = NoRequest
    /\ campaign = <<>>

Next ==
    \/ startSending
    \/ handleResume
    \/ handlePause
    \/ pauseSending
    \/ endJob
    \/ clearLogs
    \/ clearResults
    \/ \E text \in RecipientTexts : setRecipients(text)
    \/ \E d \in 0..MaxDelay : setDelay(d)
    \/ \E L \in Sending : \E resp \in ContractResponses : Response(L, resp)
    \/ \E L \in Waiting : Tick(L)

Spec == Init /\ [][Next]_vars

---------------------------------------------------------------------------
(* Vocabulary of the properties *)

IsTerminal(status) == status \in {"success", "failed"}

\* send requests issued and not yet answered
OutstandingSends == BagCardinality([L \in Sending |-> CopiesIn(L, loops)])

\* rows of the result list shown as sending
SendingRows == {k \in 1..Len(results) : results[k].status = "sending"}

\* the rows that stand for recipient i (0-based): by the index field where
\* rows are prepended, by position where they are prefilled
RowsOf(res, i) ==
    {k \in 1..Len(res) :
        IF Prepends(variant) THEN res[k].index = i + 1 ELSE k = i + 1}

\* the recipient (0-based) that row k stands for
RecipientOf(res, k) == IF Prepends(variant) THEN res[k].index - 1 ELSE k - 1

\* this step is a continuation of the suspended invocation L
StepOf(L) == (\E resp \in ContractResponses : Response(L, resp)) \/ Tick(L)

\* the suspended invocation L wakes up in this step and returns
Returns(L) ==
    /\ StepOf(L)
    /\ BagCardinality(loops') < BagCardinality(loops)

\* this step issues a send request
IssuesSend ==
    \E L \in BagToSet(loops') :
        L.pc = "send" /\ CopiesIn(L, loops') > CopiesIn(L, loops)

\* this step is taken by a suspended invocation (it does not launch one)
LoopStep ==
    loops' # loops /\ BagCardinality(loops') <= BagCardinality(loops)

\* a dispatch is in progress: some invocation of the loop has not returned
InProgress == loops # EmptyBag

---------------------------------------------------------------------------
(* C1: under every interleaving of the controls and the responses, at most *)
(* one row of the result list is 'sending' and at most one send request is *)
(* outstanding.                                                            *)
C1_AtMostOneSending ==
    /\ Cardinality(SendingRows) <= 1
    /\ OutstandingSends <= 1

---------------------------------------------------------------------------
\* every recipient of 0..k-1 has a row and shows a terminal status
TerminalBelow(res, k) ==
    \A j \in 0..(k - 1) :
        /\ RowsOf(res, j) # {}
        /\ \A r \in RowsOf(res, j) : IsTerminal(res[r].status)

\* no recipient of k..n-1 has been started: its row is still pending (the
\* prepend variant keeps the rows of earlier campaigns, so there only a
\* row that is 'sending' tells)
PendingFrom(res, k, n) ==
    \A j \in k..(n - 1) :
        \A r \in RowsOf(res, j) :
            IF variant = "prepend" THEN res[r].status # "sending"
            ELSE res[r].status = "pending"

\* this step launches an invocation of the loop
Launches == BagCardinality(loops') > BagCardinality(loops)

\* the send of invocation L is answered in this step
Answered(L) == \E resp \in ContractResponses : Response(L, resp)

\* the send of invocation L is answered with a failure in this step
Rejected(L) ==
    \E resp \in ContractResponses :
        ~sendEmail(resp).success /\ Response(L, resp)

---------------------------------------------------------------------------
(* C2: ordering.  Whenever recipient i+1 is shown as 'sending', recipient  *)
(* i has reached a terminal status: it has a row and that row is success   *)
(* or failed.                                                              *)
C2_SequentialOrder ==
    \A k \in SendingRows :
        LET i == RecipientOf(results, k) - 1
        IN  i >= 0 => \E r \in RowsOf(results, i) : IsTerminal(results[r].status)

---------------------------------------------------------------------------
(* C3: pause.  When a suspended invocation wakes up with the pause flag    *)
(* set and returns at the checkpoint of index k < N, the cursor is k, the  *)
(* recipients 0..k-1 show a terminal status and none of k..N-1 has been    *)
(* started; a start or resume begins at the cursor, so at k.               *)
C3_PauseHonored ==
    [][ /\ \A L \in BagToSet(loops) :
             (Returns(L) /\ isPausedRef /\ L.i + 1 < Len(L.emailList))
             => /\ currentIndexRef' = L.i + 1
                /\ TerminalBelow(results', L.i + 1)
                /\ PendingFrom(results', L.i + 1, Len(L.emailList))
                /\ ~IssuesSend
        /\ (Launches /\ (startSending \/ handleResume))
             => \E L \in BagToSet(loops') :
                    /\ CopiesIn(L, loops') > CopiesIn(L, loops)
                    /\ L.i = currentIndexRef ]_vars

---------------------------------------------------------------------------
(* C4: a pause requested while recipient i (not the last) is mid-send does *)
(* not cancel the send; when the answer arrives recipient i shows a        *)
(* terminal status, no further recipient is marked 'sending', the cursor   *)
(* is i+1 and the campaign is paused.                                      *)
C4_PauseMidSend ==
    [][ /\ (handlePause \/ pauseSending) => loops' = loops
        /\ \A L \in Sending :
             (Answered(L) /\ isPausedRef /\ L.i + 1 < Len(L.emailList))
             => /\ RowsOf(results', L.i) # {}
                /\ \A r \in RowsOf(results', L.i) :
                      IsTerminal(results'[r].status)
                /\ ~IssuesSend
                /\ Cardinality(SendingRows') <= Cardinality(SendingRows)
                /\ currentIndexRef' = L.i + 1
                /\ isPausedRef'
                /\ variant = "countdown" => isPaused' ]_vars

---------------------------------------------------------------------------
(* C5: when an invocation that started at index 0 leaves the loop after    *)
(* its last recipient, the result list holds exactly N rows, all of them   *)
(* success or failed, the cursor is 0 and running is false.                *)
C5_CompletedRun ==
    [][ \A L \in Sending :
          (Answered(L) /\ L.from = 0 /\ L.i + 1 = Len(L.emailList))
          => /\ Len(results') = Len(L.emailList)
             /\ \A k \in 1..Len(results') : IsTerminal(results'[k].status)
             /\ currentIndexRef' = 0
             /\ isRunning' = FALSE ]_vars

---------------------------------------------------------------------------
(* C6: a failed send is recorded as 'failed', is not sent again, and does  *)
(* not stop the loop: the invocation goes on to the wait or to the next    *)
(* recipient, or leaves the loop after the last one with running = false.  *)
C6_FailureRecorded ==
    [][ \A L \in Sending :
          Rejected(L)
          => /\ RowsOf(results', L.i) # {}
             /\ \A r \in RowsOf(results', L.i) : results'[r].status = "failed"
             /\ \A L2 \in BagToSet(loops') :
                   (L2.pc = "send" /\ L2.i = L.i /\ L2.emailList = L.emailList)
                   => CopiesIn(L2, loops') < CopiesIn(L2, loops) + 1
             /\ (L.i + 1 < Len(L.emailList) /\ ~isPausedRef)
                   => \E L2 \in BagToSet(loops') :
                         /\ CopiesIn(L2, loops') > CopiesIn(L2, loops)
                         /\ L2.emailList = L.emailList
                         /\ \/ L2.pc = "wait" /\ L2.i = L.i
                            \/ L2.pc = "send" /\ L2.i = L.i + 1
             /\ L.i + 1 = Len(L.emailList) => isRunning' = FALSE ]_vars

---------------------------------------------------------------------------
(* C7: a start or a resume whose recipient text normalizes to the empty    *)
(* list changes no campaign state: cursor, running, the paused state and   *)
(* flag and the result list stay as they are and no send is issued.        *)
C7_EmptyStartIsNoOp ==
    [][ ((startSending \/ handleResume)
            /\ parseEmails(variant, recipients) = <<>>)
        => UNCHANGED << currentIndexRef, isRunning, isPaused, isPausedRef,
                        results, loops >> ]_vars

---------------------------------------------------------------------------
(* C8: End Job, from every state in which its button is shown, leaves      *)
(* running = false, paused = false (state and flag) and cursor = 0.        *)
C8_EndJobForcesIdle ==
    [][ endJob => /\ isRunning' = FALSE
                  /\ isPaused' = FALSE
                  /\ isPausedRef' = FALSE
                  /\ currentIndexRef' = 0 ]_vars

\* End Job has just abandoned a resume position while a send was outstanding
C8_Witness ==
    /\ jobEnded
    /\ ~isRunning /\ ~isPaused /\ ~isPausedRef /\ currentIndexRef = 0
    /\ \E k \in 1..Len(results) : IsTerminal(results[k].status)

---------------------------------------------------------------------------
(* C9: once End Job was pressed while the loop was suspended, the loop     *)
(* terminates when it wakes up: it issues no further send, marks no        *)
(* further recipient 'sending' and does not write the cursor.              *)
C9_EndedLoopStops ==
    [][ (jobEnded /\ LoopStep)
        => /\ ~IssuesSend
           /\ Cardinality(SendingRows') <= Cardinality(SendingRows)
           /\ currentIndexRef' = currentIndexRef ]_vars

---------------------------------------------------------------------------
(* C10: a clear while a dispatch is in progress changes nothing: result    *)
(* list, counters, cursor, running and the pause flag stay as they are.    *)
C10_ClearInProgressIsNoOp ==
    [][ ((clearLogs \/ clearResults) /\ InProgress)
        => UNCHANGED << results, stats, currentIndexRef, isRunning, isPaused,
                        isPausedRef >> ]_vars

---------------------------------------------------------------------------
\* the length of the normalized list derived from the current recipient text
recipientCount == Len(parseEmails(variant, recipients))

(* C11: in every reachable state the cursor lies in 0..recipientCount,     *)
(* where recipientCount is taken from the current recipient text.          *)
C11_CursorInRange ==
    /\ currentIndexRef >= 0
    /\ currentIndexRef <= recipientCount

---------------------------------------------------------------------------
\* a status and the status that replaces it: a terminal status stays as it
\* is, and 'sending' does not go back to 'pending'
MovesForward(old, new) ==
    /\ IsTerminal(old) => new = old
    /\ old = "sending" => new # "pending"

\* this step begins a new pass or ends the current one: a start at cursor 0
\* (or on an empty list of results), or a clear
PassBoundary ==
    \/ clearLogs
    \/ clearResults
    \/ Launches /\ (currentIndexRef = 0 \/ results = <<>>)

(* C12: within one pass a row's status only moves forward along pending -> *)
(* sending -> success | failed.  In every step that neither begins nor     *)
(* ends a pass each row is kept (rows are added on top only), a terminal   *)
(* status stays unchanged and 'sending' never returns to 'pending'.        *)
C12_StatusMovesForward ==
    [][ ~PassBoundary
        => /\ Len(results') >= Len(results)
           /\ \A d \in 0..(Len(results) - 1) :
                 MovesForward(results[Len(results) - d].status,
                              results'[Len(results') - d].status) ]_vars

---------------------------------------------------------------------------
\* the campaign-level state the controls show.  The countdown variant keeps
\* a paused state; the others show "Resume Campaign" when the loop returned
\* at a checkpoint (not running, cursor > 0).
CampaignState(run, pau, cur) ==
    IF variant = "countdown"
    THEN IF pau THEN "paused" ELSE IF run THEN "running" ELSE "idle"
    ELSE IF run THEN "running" ELSE IF cur > 0 THEN "paused" ELSE "idle"

\* an invocation leaves the loop after its last recipient in this step
Completes ==
    \E L \in Sending : Answered(L) /\ L.i + 1 = Len(L.emailList)

(* C13: the campaign-level state changes only along idle -> running,       *)
(* running -> paused, running -> completed -> idle (the loop leaving after *)
(* its last item), paused -> running (a start or resume) and paused ->     *)
(* idle (End Job or clear; a completion after a pause requested during    *)
(* the last send, and a start whose cursor is already past the list, are  *)
(* counted as passing through running and completed).                      *)
C13_CampaignEdges ==
    [][ LET a == CampaignState(isRunning, isPaused, currentIndexRef)
            b == CampaignState(isRunning', isPaused', currentIndexRef')
        IN  \/ a = b
            \/ a = "idle" /\ b = "running" /\ Launches
            \/ a = "running" /\ b = "paused"
            \/ a = "running" /\ b = "idle" /\ Completes
            \/ a = "paused" /\ b = "running" /\ Launches
            \/ a = "paused" /\ b = "idle"
                  /\ (endJob \/ clearLogs \/ clearResults \/ Completes
                        \/ startSending \/ handleResume) ]_vars

---------------------------------------------------------------------------
\* the campaign is neither running nor paused: running is false, and so are
\* the paused state and the pause flag
IdleReady == ~isRunning /\ ~isPaused /\ ~isPausedRef

(* C14: in every reachable state in which the campaign is neither running  *)
(* nor paused, the cursor is 0.                                            *)
C14_IdleCursorZero == IdleReady => currentIndexRef = 0

\* a campaign of at least two recipients has run to its end
C14_Witness ==
    /\ IdleReady
    /\ loops = EmptyBag
    /\ currentIndexRef = 0
    /\ Len(results) >= 2
    /\ \A k \in 1..Len(results) : IsTerminal(results[k].status)

---------------------------------------------------------------------------
\* the suspended invocation L wakes up in this step and arrives at the top
\* of its next iteration: after an answer when the pause flag is set or no
\* wait follows, after the timer when the wait is over or was left
WakesAtTop(L) ==
    \/ Answered(L) /\ (isPausedRef \/ L.i + 1 >= Len(L.emailList)
                          \/ (variant = "countdown" /\ L.delay = 0))
    \/ Tick(L) /\ IF variant = "countdown" THEN (L.s - 1 <= 0 \/ isPausedRef)
                  ELSE L.s <= 1

\* what the checkpoint at index L.i + 1 does apart from running and paused
CheckpointEffect(L) ==
    /\ currentIndexRef' = L.i + 1
    /\ loops' = loops (-) SetToBag({L})
    /\ ~IssuesSend
    /\ SendingRows' \subseteq SendingRows
    /\ Len(results') = Len(results)

(* C15 as stated: when the loop finds the pause flag set at the top of     *)
(* iteration i it stores cursor = i, sets running = false and paused =     *)
(* true and returns without marking recipient i 'sending' and without      *)
(* sending to it.                                                          *)
C15_CheckpointAsStated ==
    [][ \A L \in BagToSet(loops) :
          (WakesAtTop(L) /\ isPausedRef /\ L.i + 1 < Len(L.emailList))
          => /\ CheckpointEffect(L)
             /\ isRunning' = FALSE
             /\ isPausedRef'
             /\ variant = "countdown" => isPaused' ]_vars

(* C15 amended: as above, except that the countdown variant leaves         *)
(* running = true next to paused = true (its paused campaign is shown as   *)
(* running and paused); the other variants set running = false and keep    *)
(* the pause flag set.                                                     *)
C15_Checkpoint ==
    [][ \A L \in BagToSet(loops) :
          (WakesAtTop(L) /\ isPausedRef /\ L.i + 1 < Len(L.emailList))
          => /\ CheckpointEffect(L)
             /\ isRunning' = (variant = "countdown")
             /\ isPausedRef'
             /\ variant = "countdown" => isPaused' ]_vars

\* the countdown variant has returned at a checkpoint
C15_Witness ==
    /\ variant = "countdown"
    /\ loops = EmptyBag
    /\ currentIndexRef > 0
    /\ isPausedRef /\ isPaused /\ isRunning
    /\ SendingRows = {}

---------------------------------------------------------------------------
\* results' holds every row of results, in the same order and with the same
\* position counted from the bottom, apart from the status of row k
KeepsRows(k) ==
    /\ Len(results') >= Len(results)
    /\ \A d \in 0..(Len(results) - 1) :
          LET old == results[Len(results) - d]
              new == results'[Len(results') - d]
          IN  IF Len(results) - d = k
              THEN [new EXCEPT !.status = old.status] = old
              ELSE new = old

(* C16: a start (or resume) with a non-empty list and the cursor inside    *)
(* it.  With cursor = 0 it installs a fresh result list holding one entry  *)
(* per recipient in list order, all pending except the first, which the    *)
(* loop marks 'sending' at once, and zeroes the counters.  With cursor > 0 *)
(* it keeps every row and the counters and continues at the cursor.  In    *)
(* both cases it sets running = true and clears the paused state and flag. *)
C16_StartInstallsOrContinues ==
    [][ LET emails == parseEmails(variant, recipients)
        IN  ((startSending \/ handleResume) /\ currentIndexRef < Len(emails))
            => /\ isRunning' /\ ~isPaused' /\ ~isPausedRef'
               /\ \E L \in BagToSet(loops') :
                     /\ CopiesIn(L, loops') > CopiesIn(L, loops)
                     /\ L.pc = "send" /\ L.i = currentIndexRef
                     /\ L.emailList = emails
               /\ currentIndexRef = 0
                     => /\ Len(results') = Len(emails)
                        /\ \A k \in 1..Len(emails) :
                              /\ results'[k].email = emails[k]
                              /\ results'[k].status =
                                    IF k = 1 THEN "sending" ELSE "pending"
                        /\ stats' = ZeroStats
               /\ currentIndexRef > 0
                     => /\ KeepsRows(currentIndexRef + 1)
                        /\ stats' = stats ]_vars

---------------------------------------------------------------------------
(* C17: when the loop leaves after its final index, cursor = 0, running =  *)
(* false and paused = false, the pause flag included, also when a pause    *)
(* was requested during the final send; and a start at cursor 0 begins at  *)
(* index 0 with a new result list, one that holds no answered row.         *)
C17_CompletionResets ==
    [][ /\ Completes
           => /\ currentIndexRef' = 0
              /\ ~isRunning'
              /\ ~isPaused'
              /\ ~isPausedRef'
        /\ (startSending /\ Launches /\ currentIndexRef = 0)
           => /\ \E L \in BagToSet(loops') :
                    CopiesIn(L, loops') > CopiesIn(L, loops) /\ L.i = 0
              /\ \A k \in 1..Len(results') :
                    ~IsTerminal(results'[k].status) ]_vars

---------------------------------------------------------------------------
(* C18: a pause request that arrived during the wait after recipient i     *)
(* takes effect at the next loop boundary.  While the pause flag is set a  *)
(* timer step of the waiting invocation marks no recipient and sends       *)
(* nothing, and when it leaves the wait it stores cursor = i+1 and returns *)
(* without touching recipient i+1.                                         *)
C18_PauseDuringWait ==
    [][ \A L \in Waiting :
          (Tick(L) /\ isPausedRef)
          => /\ ~IssuesSend
             /\ SendingRows' \subseteq SendingRows
             /\ results' = results
             /\ WakesAtTop(L) => CheckpointEffect(L) ]_vars

\* a pause request has arrived while an invocation waits between recipient
\* i and recipient i+1, and the wait is about to end
C18_Witness ==
    \E L \in Waiting :
        /\ isPausedRef
        /\ L.s <= 1
        /\ L.i + 1 < Len(L.emailList)
        /\ \E r \in RowsOf(results, L.i) : IsTerminal(results[r].status)

---------------------------------------------------------------------------
\* the invocation L goes on as L2 in this step
GoesOnAs(L, L2) ==
    /\ loops' = (loops (-) SetToBag({L})) (+) SetToBag({L2})

(* C19: delay.  In an invocation started with delay d and with no pause    *)
(* requested, the answer for a recipient that is not the last starts a     *)
(* wait of d seconds, every second but the last of the wait leaves the     *)
(* invocation waiting with one second less, and only the end of the wait   *)
(* marks the next recipient; so d one-second ticks pass between the        *)
(* terminal status of recipient i and the 'sending' of recipient i+1.      *)
(* The answer for the last recipient is followed by no wait.               *)
C19_DelayBetweenSends ==
    [][ /\ \A L \in Sending :
             (Answered(L) /\ ~isPausedRef /\ L.i + 1 < Len(L.emailList)
                 /\ L.delay > 0)
             => /\ GoesOnAs(L, [L EXCEPT !.pc = "wait", !.s = L.delay])
                /\ ~IssuesSend
        /\ \A L \in Waiting :
             (Tick(L) /\ ~isPausedRef /\ L.s > 1)
             => /\ GoesOnAs(L, [L EXCEPT !.s = L.s - 1])
                /\ ~IssuesSend
                /\ results' = results
        /\ \A L \in Sending :
             (Answered(L) /\ L.i + 1 = Len(L.emailList))
             => loops' = loops (-) SetToBag({L}) ]_vars

\* an invocation started with the default delay of two seconds has waited
\* and is sending to its second recipient
C19_Witness ==
    \E L \in Sending :
        /\ L.delay = DefaultDelay
        /\ L.from = 0
        /\ L.i = 1
        /\ ~isPausedRef

---------------------------------------------------------------------------
(* Termination of the dispatch loop *)

\* some suspended invocation is continued: its send is answered or its
\* timer fires
LoopSteps == \E L \in BagToSet(loops) : StepOf(L)

\* every send is answered and every timer fires: a suspended invocation is
\* continued eventually
LiveSpec == Spec /\ WF_vars(LoopSteps)

\* how an invocation returns: after its last recipient with cursor = 0 and
\* running = false, or at the checkpoint of index L.i + 1 with the cursor
\* saved and the campaign paused
ReturnsCleanly(L) ==
    \/ /\ L.i + 1 >= Len(L.emailList)
       /\ currentIndexRef' = 0
       /\ ~isRunning'
    \/ /\ L.i + 1 < Len(L.emailList)
       /\ isPausedRef'
       /\ currentIndexRef' = L.i + 1
       /\ variant = "countdown" => isPaused'

(* C20: every started invocation of the loop returns, whatever the         *)
(* outcome of each send.  A continuation leaves the invocation suspended   *)
(* again or returns, after the last recipient or at a pause checkpoint;    *)
(* and once no further invocation is started, eventually none is left.     *)
C20_LoopReturns ==
    /\ [][ \A L \in BagToSet(loops) :
             StepOf(L)
             => \/ /\ BagCardinality(loops') = BagCardinality(loops)
                   /\ \E L2 \in BagToSet(loops') :
                         /\ GoesOnAs(L, L2)
                         /\ L2.emailList = L.emailList
                         /\ L2 # L /\ L2.i >= L.i
                \/ /\ loops' = loops (-) SetToBag({L})
                   /\ ReturnsCleanly(L) ]_vars
    /\ (<>[][~Launches]_vars) => <>[](loops = EmptyBag)

\* an invocation has returned after its last recipient, one send having
\* failed and one having succeeded
C20_Witness ==
    /\ loops = EmptyBag
    /\ ~isRunning
    /\ currentIndexRef = 0
    /\ \E j, k \in 1..Len(results) :
          results[j].status = "failed" /\ results[k].status = "success"

---------------------------------------------------------------------------
(* The controller against an endpoint that may answer anything *)

\* a campaign that is started, paused and left to run, with every outcome of
\* the fetch: the call may throw, and any HTTP status may come with any body.
\* Resume, End Job and the clear buttons, whose interleavings with the loop
\* Spec explores, are left out here, where the subject is how one answer is
\* classified.
NextAnyResponse ==
    \/ startSending
    \/ handlePause
    \/ pauseSending
    \/ \E text \in RecipientTexts : setRecipients(text)
    \/ \E d \in 0..MaxDelay : setDelay(d)
    \/ \E L \in Sending : \E resp \in Responses : Response(L, resp)
    \/ \E L \in Waiting : Tick(L)

SpecAnyResponse == Init /\ [][NextAnyResponse]_vars

\* the responses whose body is not valid JSON
NonJsonResponses == {resp \in Responses : ~resp.threw /\ resp.body = "nonjson"}

\* the invocation L, answered in this step, stays suspended or has returned:
\* nothing was thrown out of the loop
StaysInLoop(L) ==
    \/ \E L2 \in BagToSet(loops') :
          /\ GoesOnAs(L, L2)
          /\ L2.emailList = L.emailList
          /\ L2.i >= L.i
    \/ loops' = loops (-) SetToBag({L}) /\ ReturnsCleanly(L)

(* C21: a response whose body is not valid JSON, whatever its HTTP status, *)
(* is not thrown out of the loop and is recorded for its recipient as      *)
(* failed, with the diagnostic raw text.                                   *)
C21_NonJsonIsFailed ==
    [][ \A L \in Sending : \A resp \in NonJsonResponses :
          Response(L, resp)
          => /\ StaysInLoop(L)
             /\ \A r \in RowsOf(results', L.i) :
                   /\ results'[r].status = "failed"
                   /\ results'[r].rawResponse = "Non-JSON response" ]_vars

\* the responses the controller must record as a failure: the call threw, the
\* status is not 2xx, or the JSON body says status "failed"
FailureResponses ==
    {resp \in Responses : resp.threw \/ ~resp.ok \/ resp.body = "json_failed"}

\* the responses in which the endpoint reported success
SuccessResponses ==
    {resp \in Responses : ~resp.threw /\ resp.body = "json_success"}

(* C22: a thrown network call, a non-2xx response and a JSON body with      *)
(* status "failed" (whatever its HTTP status) all give the recipient the    *)
(* status 'failed'; a recipient becomes 'success' only by a response in     *)
(* which the endpoint reported success.                                     *)
C22_FailuresCollapse ==
    [][ \A L \in Sending : \A resp \in Responses :
          Response(L, resp)
          => \A r \in RowsOf(results', L.i) :
                /\ resp \in FailureResponses => results'[r].status = "failed"
                /\ results'[r].status = "success" => resp \in SuccessResponses
      ]_vars

\* a pause button is pressed
Pauses == handlePause \/ pauseSending

(* C23: the pause action sets the pause-request flag (with its on-screen   *)
(* mirror and the cleared countdown display) and nothing else: the cursor,  *)
(* running, the result list, the counters and the suspended invocations    *)
(* are as before.  The cursor is moved to a resume position only by an     *)
(* invocation that returns at its pause checkpoint.                         *)
C23_PauseOnlySetsFlag ==
    [][ /\ Pauses
           => /\ isPausedRef'
              /\ UNCHANGED << currentIndexRef, isRunning, results, stats,
                              recipients, delay, loops >>
        /\ (currentIndexRef' # currentIndexRef /\ currentIndexRef' # 0)
           => \E L \in BagToSet(loops) :
                 /\ Returns(L)
                 /\ isPausedRef
                 /\ currentIndexRef' \in {L.i, L.i + 1} ]_vars

\* a pause was requested and the invocation has not yet reached its
\* checkpoint: the campaign runs, the cursor is unset, a send is in flight
C23_Witness ==
    /\ isPausedRef
    /\ isRunning
    /\ currentIndexRef = 0
    /\ Sending # {}
    /\ SendingRows # {}

(* C24: in every reachable state, every result entry has its completion     *)
(* time set exactly when its status is terminal, a raw response exactly     *)
(* when its status is terminal, and a null message while it is pending or   *)
(* sending.                                                                 *)
C24_RowFieldsFollowStatus ==
    \A k \in 1..Len(results) :
        /\ (results[k].time # Null) <=> IsTerminal(results[k].status)
        /\ (results[k].rawResponse # Undefined) <=> IsTerminal(results[k].status)
        /\ ~IsTerminal(results[k].status) => results[k].message = Null

---------------------------------------------------------------------------
(* The normalizer on every short text, and the Clean List button *)

MaxTextLen == 6

\* the characters of the texts: a letter in both cases, the '@', two
\* delimiters of which only the countdown and prepend variants split on the
\* second, and a blank
TextChars == {"A", "a", "@", ",", ";", " "}

Texts == UNION {[1..n -> TextChars] : n \in 0..MaxTextLen}

\* a faulty join that writes the entries one after the other with nothing
\* between them; C26 must detect it
RECURSIVE Join_NoSeparator(_)
Join_NoSeparator(list) ==
    IF list = <<>> THEN <<>>
    ELSE list[1] \o Join_NoSeparator(Tail(list))

\* list.join("\n")
RECURSIVE Join(_)
Join(list) ==
    IF list = <<>> THEN <<>>
    ELSE IF Len(list) = 1 THEN list[1]
    ELSE list[1] \o << "\n" >> \o Join(Tail(list))

\* Remove Duplicates / Clean List button (the guarded variant has none):
\* setRecipients(list.join("\n")), where the countdown and prepend variants
\* pass the parsed list through a Set first
cleanList ==
    /\ variant # "guarded"
    /\ LET parsed == parseEmails(variant, recipients)
           list   == IF variant = "prefill" THEN parsed ELSE Unique(parsed)
       IN recipients' = Join(list)
    /\ UNCHANGED << endpoint, campaign, variant, delay, results, stats, isRunning, isPaused,
                    countdown, isPausedRef, currentIndexRef, loops, jobEnded >>

\* the idle dashboard with any short text in the recipient textarea
InitNormalizer ==
    /\ variant \in Variants
    /\ recipients \in Texts
    /\ delay = DefaultDelay
    /\ results = <<>>
    /\ stats = ZeroStats
    /\ isRunning = FALSE
    /\ isPaused = FALSE
    /\ countdown = 0
    /\ isPausedRef = FALSE
    /\ currentIndexRef = 0
    /\ loops = EmptyBag
    /\ jobEnded = FALSE
    /\ endpoint = NoRequest
    /\ campaign = <<>>

NextNormalizer == cleanList

SpecNormalizer == InitNormalizer /\ [][NextNormalizer]_vars

\* the candidates of a text in the order they are written: the pieces
\* between delimiters, trimmed and lowercased, that contain '@'
Candidates(v, text) ==
    LET pieces == Split(text, SplitChars(v))
    IN FilterValid([k \in 1..Len(pieces) |-> ToLower(Trim(pieces[k]))])

\* the position at which entry e first stands in list (0 when it does not)
FirstIndex(list, e) ==
    IF \E k \in 1..Len(list) : list[k] = e
    THEN CHOOSE k \in 1..Len(list) :
            list[k] = e /\ \A j \in 1..(k - 1) : list[j] # e
    ELSE 0

\* every entry is lowercase, trimmed and contains '@'
WellFormed(out) ==
    \A k \in 1..Len(out) :
        /\ ToLower(out[k]) = out[k]
        /\ Trim(out[k]) = out[k]
        /\ IncludesAt(out[k])

NoDuplicates(out) == \A j, k \in 1..Len(out) : j # k => out[j] # out[k]

\* out holds every candidate, each at the place of its first appearance
FirstAppearanceOrder(out, cands) ==
    /\ \A k \in 1..Len(cands) : FirstIndex(out, cands[k]) # 0
    /\ \A j, k \in 1..Len(out) :
          j < k => /\ FirstIndex(cands, out[j]) # 0
                   /\ FirstIndex(cands, out[j]) < FirstIndex(cands, out[k])

(* C25, as stated: for every text, the sequence the controller iterates    *)
(* holds only lowercase, trimmed candidates that contain '@', holds no      *)
(* address twice, and keeps the order of first appearance.                  *)
C25_NormalizedAsStated ==
    LET out == parseEmails(variant, recipients)
    IN /\ WellFormed(out)
       /\ NoDuplicates(out)
       /\ FirstAppearanceOrder(out, Candidates(variant, recipients))

(* C25, as the code has it: for every text the sequence holds only          *)
(* lowercase, trimmed candidates that contain '@', in the order they are    *)
(* written.  The prefill and guarded variants keep the first appearance of  *)
(* each address only; the countdown and prepend variants, whose textarea    *)
(* is labelled "duplicates allowed", keep every appearance.                 *)
C25_Normalized ==
    LET out   == parseEmails(variant, recipients)
        cands == Candidates(variant, recipients)
    IN /\ WellFormed(out)
       /\ IF variant \in {"prefill", "guarded"}
          THEN NoDuplicates(out) /\ FirstAppearanceOrder(out, cands)
          ELSE out = cands

\* a deduplicating variant holds a text in which an address written in
\* upper case comes back after another one
C25_Witness ==
    /\ variant = "prefill"
    /\ \E k \in 1..Len(recipients) : recipients[k] = "A"
    /\ Len(parseEmails(variant, recipients)) = 2
    /\ Len(Candidates(variant, recipients)) = 3
    /\ Candidates(variant, recipients)[1] = Candidates(variant, recipients)[3]

(* C26: normalization is idempotent: for every text, normalizing the        *)
(* newline-joined output of the normalizer gives the same sequence as       *)
(* normalizing the text.                                                    *)
C26_Idempotent ==
    LET out == parseEmails(variant, recipients)
    IN parseEmails(variant, Join(out)) = out

\* a text whose normalization changes it: upper case, a duplicate and a
\* delimiter other than the newline, with two entries or more in the output
C26_Witness ==
    LET out == parseEmails(variant, recipients)
    IN /\ Len(out) >= 2
       /\ Join(out) # recipients
       /\ \E k \in 1..Len(recipients) : recipients[k] = "A"
       /\ \E k \in 1..Len(recipients) : recipients[k] = ";"
       /\ Len(Candidates(variant, recipients)) > Len(Unique(out))

---------------------------------------------------------------------------
(* The mail endpoint /api/index.php *)

\* $_SERVER['HTTP_HOST'], as its labels; <<>> when the header is not set
Hosts == {<<>>, <<"shop">>, <<"www", ".", "shop">>, <<"shop", ".", "www", ".">>}

\* the fromEmail of a request: not given, not an address, a valid address
NoSender      == <<>>
InvalidSender == <<"me">>
ValidSender   == <<"me", "@", "shop">>

\* php://input: nothing, text that json_decode rejects, the JSON of an
\* empty object, the JSON object the dashboard posts
Bodies == {"none", "unparseable", "emptyobject", "object"}

Requests ==
    [method    : {"OPTIONS", "POST"},
     host      : Hosts,
     body      : Bodies,
     fromEmail : {NoSender, InvalidSender, ValidSender},
     fromName  : {Undefined, "Shop"}]

\* empty(json_decode($json_input, true))
EmptyData(req) == req.body # "object"

\* preg_replace('/^www\./', '', $_SERVER['HTTP_HOST'] ?? 'localhost')
CurrentDomain(host) ==
    IF host = <<>> THEN <<"localhost">>
    ELSE IF Len(host) >= 2 /\ host[1] = "www" /\ host[2] = "."
    THEN SubSeq(host, 3, Len(host))
    ELSE host

\* $fromEmail = "no-reply@" . $current_domain: the request's fromEmail is
\* never read
FromEmail(req) == <<"no-reply", "@">> \o CurrentDomain(req.host)

NoMail == [called |-> FALSE, fromName |-> Undefined, from |-> <<>>,
           replyTo |-> <<>>]

\* a faulty script that does not stop at the empty-data test; C28 must
\* detect it
HandleRequest_MailsEmptyData(req, accepted) ==
    /\ endpoint' =
         IF req.method = "OPTIONS"
         THEN [handled |-> TRUE, req |-> req, mail |-> NoMail,
               code |-> 200, status |-> "none"]
         ELSE [handled |-> TRUE, req |-> req,
               mail |-> [called |-> TRUE, fromName |-> "Upsun User",
                         from |-> FromEmail(req), replyTo |-> FromEmail(req)],
               code |-> IF accepted THEN 200 ELSE 500,
               status |-> IF accepted THEN "success" ELSE "failed"]
    /\ UNCHANGED << campaign, variant, recipients, delay, results, stats,
                    isRunning, isPaused, countdown, isPausedRef,
                    currentIndexRef, loops, jobEnded >>

\* a faulty script that reports a failed mail() without http_response_code(500);
\* C29 must detect it
HandleRequest_NoErrorCode(req, accepted) ==
    /\ endpoint' =
         IF req.method = "OPTIONS"
         THEN [handled |-> TRUE, req |-> req, mail |-> NoMail,
               code |-> 200, status |-> "none"]
         ELSE IF EmptyData(req)
         THEN [handled |-> TRUE, req |-> req, mail |-> NoMail,
               code |-> 200, status |-> "failed"]
         ELSE [handled |-> TRUE, req |-> req,
               mail |-> [called |-> TRUE,
                         fromName |-> IF req.fromName = Undefined
                                      THEN "Upsun User" ELSE req.fromName,
                         from |-> FromEmail(req), replyTo |-> FromEmail(req)],
               code |-> 200,
               status |-> IF accepted THEN "success" ELSE "failed"]
    /\ UNCHANGED << campaign, variant, recipients, delay, results, stats,
                    isRunning, isPaused, countdown, isPausedRef,
                    currentIndexRef, loops, jobEnded >>

\* one run of the script for the request req; accepted is what mail()
\* returns when it is called.  The response is its HTTP code and the status
\* field of its JSON body ("none" for the bodiless answer to OPTIONS).
HandleRequest(req, accepted) ==
    /\ endpoint' =
         IF req.method = "OPTIONS"
         THEN [handled |-> TRUE, req |-> req, mail |-> NoMail,
               code |-> 200, status |-> "none"]
         ELSE IF EmptyData(req)
         THEN [handled |-> TRUE, req |-> req, mail |-> NoMail,
               code |-> 200, status |-> "failed"]
         ELSE [handled |-> TRUE, req |-> req,
               mail |-> [called |-> TRUE,
                         fromName |-> IF req.fromName = Undefined
                                      THEN "Upsun User" ELSE req.fromName,
                         from |-> FromEmail(req), replyTo |-> FromEmail(req)],
               code |-> IF accepted THEN 200 ELSE 500,
               status |-> IF accepted THEN "success" ELSE "failed"]
    /\ UNCHANGED << campaign, variant, recipients, delay, results, stats,
                    isRunning, isPaused, countdown, isPausedRef,
                    currentIndexRef, loops, jobEnded >>

NextEndpoint == \E req \in Requests : \E accepted \in BOOLEAN : HandleRequest(req, accepted)

SpecEndpoint == Init /\ [][NextEndpoint]_vars

(* C27: the endpoint puts no-reply@<request host without a leading www.>   *)
(* into the From and Reply-To headers only when the request's fromEmail is  *)
(* absent or not a valid address; a valid fromEmail of the request is the   *)
(* address of both headers.                                                 *)
C27_SenderFromRequest ==
    (endpoint.handled /\ endpoint.mail.called)
    => LET wanted == IF endpoint.req.fromEmail = ValidSender
                     THEN endpoint.req.fromEmail
                     ELSE <<"no-reply", "@">> \o CurrentDomain(endpoint.req.host)
       IN /\ endpoint.mail.from = wanted
          /\ endpoint.mail.replyTo = wanted

(* C28: the endpoint never calls the mail transport for an OPTIONS          *)
(* request, which it answers with a bare 200, nor for a request whose body  *)
(* is empty or cannot be parsed, which it answers with a failure JSON.      *)
C28_NoMailWithoutData ==
    endpoint.handled
    => /\ endpoint.req.method = "OPTIONS"
          => /\ ~endpoint.mail.called
             /\ endpoint.code = 200
             /\ endpoint.status = "none"
       /\ (endpoint.req.method # "OPTIONS" /\ EmptyData(endpoint.req))
          => /\ ~endpoint.mail.called
             /\ endpoint.status = "failed"

\* the endpoint has answered a POST whose body json_decode rejects
C28_Witness ==
    /\ endpoint.handled
    /\ endpoint.req.method = "POST"
    /\ endpoint.req.body = "unparseable"
    /\ endpoint.status = "failed"

(* C29: for a request with a parseable non-empty body the endpoint answers  *)
(* HTTP 200 with status "success" exactly when mail() accepted the message  *)
(* and HTTP 500 with status "failed" exactly when it did not.               *)
C29_ResponseFollowsTransport ==
    [][ endpoint'.handled
        => LET req == endpoint'.req
           IN \A accepted \in BOOLEAN :
                 (HandleRequest(req, accepted) /\ req.method = "POST"
                                               /\ ~EmptyData(req))
                 => /\ endpoint'.mail.called
                    /\ (endpoint'.code = 200 /\ endpoint'.status = "success")
                          <=> accepted
                    /\ (endpoint'.code = 500 /\ endpoint'.status = "failed")
                          <=> ~accepted ]_vars

\* the endpoint has answered a POST of a JSON object that mail() refused
C29_Witness ==
    /\ endpoint.handled
    /\ endpoint.req.method = "POST"
    /\ endpoint.req.body = "object"
    /\ endpoint.mail.called
    /\ endpoint.code = 500

(* C30: at most one invocation of the dispatch loop is active at any time:  *)
(* no start or resume launches the loop while an earlier invocation is      *)
(* still suspended on a send or on the wait between two recipients.         *)
C30_OneLoopInvocation == BagCardinality(loops) <= 1

---------------------------------------------------------------------------
(* Running, the loop, the counters and the sequence numbers *)

\* an invocation of the dispatch loop has not returned: it awaits a send or
\* the wait between two recipients
LoopActive == loops # EmptyBag

(* C31: whenever an invocation of the dispatch loop is active, running is   *)
(* true: nothing is sent while the campaign is shown as idle.               *)
C31_ActiveMeansRunning == LoopActive => isRunning

(* C32: whenever running is true and no pause is requested or shown, an     *)
(* invocation of the dispatch loop is active that can make progress.        *)
C32_RunningMeansActive ==
    (isRunning /\ ~isPaused /\ ~isPausedRef) => LoopActive

(* C33: every send that returns is recorded: in the step in which the send  *)
(* for recipient index i is answered, the result list gets a terminal       *)
(* entry for i, whatever was cleared or edited before.                      *)
C33_AnswerIsRecorded ==
    [][ \A L \in Sending :
          Answered(L)
          => \E r \in RowsOf(results', L.i) : IsTerminal(results'[r].status)
      ]_vars

\* the number of result entries with the status st
CountStatus(st) ==
    Cardinality({k \in 1..Len(results) : results[k].status = st})

(* C34: in the countdown variant, which keeps cumulative counters, in every *)
(* reachable state processed = success + failed, success is the number of   *)
(* entries with status success and failed the number with status failed.    *)
C34_CountersMatchRows ==
    variant = "countdown"
    => /\ stats.processed = stats.success + stats.failed
       /\ stats.success = CountStatus("success")
       /\ stats.failed = CountStatus("failed")

(* C35: in the variants that add a row when a recipient starts sending, no  *)
(* two entries of the result list carry the same sequence number, so that   *)
(* the update for an index changes exactly one row.                         *)
C35_SequenceNumbersUnique ==
    Prepends(variant)
    => \A j, k \in 1..Len(results) :
          j # k => results[j].index # results[k].index

\* a start that finds the cursor at 0: the fresh start, which resets the list
FreshStart == (startSending \/ handleResume) /\ currentIndexRef = 0

(* C37: End Job leaves the result list and the success / failed /           *)
(* processed counters as they are, and the list loses entries only by a     *)
(* fresh start or by a clear: the entries of the ended campaign stay        *)
(* visible until then.                                                      *)
C37_EndJobKeepsResults ==
    [][ /\ endJob => UNCHANGED << results, stats >>
        /\ Len(results') < Len(results)
           => (FreshStart \/ clearLogs \/ clearResults) ]_vars

\* End Job was pressed in a campaign that had recorded an answer, and the
\* entry and the counters are still there
C37_Witness ==
    /\ variant = "countdown"
    /\ jobEnded
    /\ ~isRunning
    /\ results # <<>>
    /\ stats.processed > 0

(* C39: in the guarded variant, whose Clear button is disabled while        *)
(* running, running is true as long as an invocation of the loop is active  *)
(* (a pause request does not lower it), so that Clear and Start are         *)
(* executed only when no invocation is active.                              *)
C39_GuardedClear ==
    [][ variant = "guarded"
        => /\ LoopActive' => isRunning'
           /\ (clearResults \/ startSending) => ~LoopActive ]_vars

\* the guarded variant with a pause requested and the send still awaited:
\* running is still true, and Clear and Start are not offered
C39_Witness ==
    /\ variant = "guarded"
    /\ isPausedRef
    /\ isRunning
    /\ Sending # {}

(* C38: in the countdown variant, when a pause has been requested during    *)
(* the countdown between two recipients and is still requested, the rest of *)
(* the countdown is abandoned: the next firing of the one-second timer      *)
(* takes the invocation to its pause checkpoint, where it returns with the  *)
(* cursor on the next recipient, and the countdown shown is 0 afterwards.   *)
C38_CountdownAbandoned ==
    [][ variant = "countdown"
        => \A L \in Waiting :
              (Tick(L) /\ isPausedRef)
              => /\ Returns(L)
                 /\ countdown' = 0
                 /\ currentIndexRef' = L.i + 1
                 /\ isPaused' ]_vars

\* the countdown variant with a pause requested while an invocation has two
\* seconds or more of its countdown left
C38_Witness ==
    /\ variant = "countdown"
    /\ isPausedRef
    /\ countdown = 0
    /\ \E L \in Waiting : L.s >= 2

(* C36: across honored pause / resume cycles, with the recipient text       *)
(* possibly edited while paused, one campaign sends exactly the list        *)
(* normalized at its fresh start: a start that continues at cursor c > 0    *)
(* after the loop has returned iterates a list of the same length whose     *)
(* entries from position c on are those of the fresh start, so that it      *)
(* neither skips nor repeats a recipient.                                   *)
C36_ResumeKeepsList ==
    [][ ((startSending \/ handleResume) /\ ~LoopActive /\ currentIndexRef > 0)
        => LET emails == parseEmails(variant, recipients)
           IN emails # <<>>
              => /\ Len(emails) = Len(campaign)
                 /\ \A k \in (currentIndexRef + 1)..Len(emails) :
                       emails[k] = campaign[k] ]_vars

============================================================================
